---- MODULE Spec2Model ----
(***************************************************************************)
(* Model of src/script.py: the TLE record decoder (parse_bstar,            *)
(* parse_tle_pair), the space-weather stage (fetch_space_weather) and the  *)
(* ingestion cycle (main) against a store of three append-only tables.     *)
(*                                                                         *)
(* Text is modelled as sequences of one-character strings, so that the     *)
(* column slices, the int()/float() parsing and the string join keys of    *)
(* the source are computed character by character.                         *)
(***************************************************************************)
EXTENDS Integers, Sequences, FiniteSets, TLC

VARIABLES
    dim,        \* table dim_satellites: sequence of rows
    tele,       \* table fact_telemetry: sequence of rows
    weather,    \* table fact_space_weather: sequence of rows
    now,        \* the clock (utcnow() / SQL NOW()), in whole days since 1900-01-01
    pc,         \* position of main()
    cycles,     \* number of calls of main so far
    payload,    \* response.text of the TLE fetch: the handles of its lines (see Text)
    attempts,   \* the parse_tle_pair calls of the batch loop: for each, the
                \* positions in the payload of the lines passed as name, l1, l2
    records,    \* the list `records` / the frame df
    queries,    \* tables queried by main's stages A and B in the current cycle
    outcome,    \* how the last cycle ended
    dim0,       \* dim at the start of the current cycle
    tele0,      \* tele at the start of the current cycle
    weather0,   \* weather at the start of the current cycle
    faults,     \* the external calls that failed in the current cycle
    prev,       \* payload and outcome of the cycle before the current one
    failures,   \* number of external calls that have failed so far
    d_in,       \* decoder harness: the arguments (line1, line2, sat_name)
    d_out       \* decoder harness: the value parse_tle_pair returned

vars == <<dim, tele, weather, now, pc, cycles, payload, attempts, records,
          queries, outcome, dim0, tele0, weather0, faults, prev, failures, d_in, d_out>>

-----------------------------------------------------------------------------
(* Python text primitives *)

DIGITS == <<"0", "1", "2", "3", "4", "5", "6", "7", "8", "9">>

IsDigit(c) == \E i \in 1..10 : DIGITS[i] = c

DigitVal(c) == (CHOOSE i \in 1..10 : DIGITS[i] = c) - 1

Min(a, b) == IF a < b THEN a ELSE b

Max(a, b) == IF a > b THEN a ELSE b

\* s[a:b] for 0 <= a <= b: Python slices clamp to the string, they never raise
Slice(s, a, b) == SubSeq(s, a + 1, Min(b, Len(s)))

\* s[-2:] and s[:-2]
Tail2(s) == SubSeq(s, Max(Len(s) - 2, 0) + 1, Len(s))

Front2(s) == SubSeq(s, 1, Max(Len(s) - 2, 0))

IsSpace(c) == c = " "

IsBlank(s) == \A i \in 1..Len(s) : IsSpace(s[i])

FirstSolid(s) == CHOOSE i \in 1..Len(s) : ~IsSpace(s[i]) /\ \A j \in 1..(i - 1) : IsSpace(s[j])

LastSolid(s) == CHOOSE i \in 1..Len(s) : ~IsSpace(s[i]) /\ \A j \in (i + 1)..Len(s) : IsSpace(s[j])

\* str.strip(), str.lstrip(), str.rstrip()
Strip(s) == IF IsBlank(s) THEN << >> ELSE SubSeq(s, FirstSolid(s), LastSolid(s))

LStrip(s) == IF IsBlank(s) THEN << >> ELSE SubSeq(s, FirstSolid(s), Len(s))

RStrip(s) == IF IsBlank(s) THEN << >> ELSE SubSeq(s, 1, LastSolid(s))

AllDigits(s) == \A i \in 1..Len(s) : IsDigit(s[i])

RECURSIVE NumVal(_)
NumVal(s) ==
    IF s = << >> THEN 0
    ELSE NumVal(SubSeq(s, 1, Len(s) - 1)) * 10 + DigitVal(s[Len(s)])

HasSign(s) == Len(s) > 0 /\ s[1] \in {"+", "-"}

IsNeg(s) == Len(s) > 0 /\ s[1] = "-"

Unsigned(s) == IF HasSign(s) THEN SubSeq(s, 2, Len(s)) ELSE s

\* an int()/float() call that raised
Failed == [ok |-> FALSE]

\* Python's None
None == [none |-> TRUE]

\* int() of a stripped text: an optional sign, then at least one digit
IntText(t) ==
    IF Len(Unsigned(t)) > 0 /\ AllDigits(Unsigned(t))
    THEN [ok |-> TRUE, val |-> IF IsNeg(t) THEN 0 - NumVal(Unsigned(t)) ELSE NumVal(Unsigned(t))]
    ELSE Failed

\* int(s)
ParseInt(s) == IntText(Strip(s))

RECURSIVE DropTrailingZeros(_)
DropTrailingZeros(s) ==
    IF s # << >> /\ s[Len(s)] = "0"
    THEN DropTrailingZeros(SubSeq(s, 1, Len(s) - 1))
    ELSE s

Dots(u) == {i \in 1..Len(u) : u[i] = "."}

\* the position of the decimal point, or one past the end
DotPos(u) == IF Dots(u) = {} THEN Len(u) + 1 ELSE CHOOSE i \in Dots(u) : TRUE

\* float() of the unsigned text u with its point at p
FloatParts(u, neg, p) ==
    IF /\ Cardinality(Dots(u)) <= 1
       /\ AllDigits(SubSeq(u, 1, p - 1))
       /\ AllDigits(SubSeq(u, p + 1, Len(u)))
       /\ Len(u) > Cardinality(Dots(u))
    THEN [ok |-> TRUE,
          neg |-> neg,
          ip |-> NumVal(SubSeq(u, 1, p - 1)),
          fd |-> DropTrailingZeros(SubSeq(u, p + 1, Len(u)))]
    ELSE Failed

FloatText(t) == FloatParts(Unsigned(t), IsNeg(t), DotPos(Unsigned(t)))

\* float(s) on the decimal forms "ddd", "ddd.", "ddd.ddd", ".ddd" with an
\* optional sign (the texts drawn here carry no exponent letter).  The value
\* is kept exactly: sign, integer part, fraction digits without trailing zeros.
ParseFloat(s) == FloatText(Strip(s))

-----------------------------------------------------------------------------
(* parse_bstar *)

\* float(f"0.{mantissa}") * (10 ** int(exponent)), kept as mantissa and
\* exponent; None when either conversion raised
BstarValue(m, e) == IF m.ok /\ e.ok THEN [mant |-> m, exp |-> e.val] ELSE None

\* the body of the try block, on the stripped text
BstarText(bstar_string) ==
    IF \E i \in 1..Len(Tail2(bstar_string)) : Tail2(bstar_string)[i] \in {"-", "+"}
    THEN BstarValue(ParseFloat(<<"0", ".">> \o Front2(bstar_string)),
                    ParseInt(Tail2(bstar_string)))
    ELSE BstarValue(ParseFloat(bstar_string), [ok |-> TRUE, val |-> 0])

parse_bstar(bstar_string) == BstarText(Strip(bstar_string))

-----------------------------------------------------------------------------
(* datetime arithmetic: an instant is [day, sec, us], day counted from       *)
(* 1900-01-01 (day 0), sec and us the time of day                            *)

IsLeap(y) == y % 4 = 0 /\ (y % 100 # 0 \/ y % 400 = 0)

\* days from 1900-01-01 to datetime(y, 1, 1)
DaysBeforeYear(y) ==
    365 * (y - 1900)
    + (((y - 1) \div 4) - 474) - (((y - 1) \div 100) - 18) + (((y - 1) \div 400) - 4)

RECURSIVE Pow10(_)
Pow10(n) == IF n <= 0 THEN 1 ELSE 10 * Pow10(n - 1)

\* F hundred-millionths of a day are F * 864 microseconds
TodOf(F) ==
    [sec |-> 108 * (F \div 125000) + ((108 * (F % 125000)) \div 125000),
     us |-> ((108 * (F % 125000)) % 125000) * 8]

\* the time of day of a day fraction 0.d1..d8, exact at the microsecond
\* resolution of datetime.timedelta (the texts drawn here carry at most
\* eight fraction digits, the field's width)
FracTod(fd) == TodOf(NumVal(fd) * Pow10(8 - Len(fd)))

EpochAt(base, epoch_day, t) ==
    IF ~epoch_day.neg
    THEN [day |-> base + epoch_day.ip - 1, sec |-> t.sec, us |-> t.us]
    ELSE IF t.sec = 0 /\ t.us = 0
    THEN [day |-> base - epoch_day.ip - 1, sec |-> 0, us |-> 0]
    ELSE IF t.us = 0
    THEN [day |-> base - epoch_day.ip - 2, sec |-> 86400 - t.sec, us |-> 0]
    ELSE [day |-> base - epoch_day.ip - 2, sec |-> 86399 - t.sec, us |-> 1000000 - t.us]

\* datetime(full_year, 1, 1) + timedelta(days = epoch_day - 1)
EpochDate(full_year, epoch_day) ==
    EpochAt(DaysBeforeYear(full_year), epoch_day, FracTod(epoch_day.fd))

-----------------------------------------------------------------------------
(* parse_tle_pair *)

\* a faulty pivot: years from 50 on are read as 19xx
FullYear_Pivot50(epoch_year) == IF epoch_year < 50 THEN 2000 + epoch_year ELSE 1900 + epoch_year

\* full_year = 2000 + epoch_year if epoch_year < 57 else 1900 + epoch_year
FullYear(epoch_year) == IF epoch_year < 57 THEN 2000 + epoch_year ELSE 1900 + epoch_year

\* a faulty decoder that returns the record without its revolution number
\* when that column does not parse
TleRecord_Partial(norad_id, intl_des, epoch_year, epoch_day, bstar_val, inclination, raan, eccentricity, arg_perigee, mean_anomaly, mean_motion, rev_number, sat_name, fetched_at) ==
    IF /\ norad_id.ok /\ epoch_year.ok /\ epoch_day.ok
       /\ inclination.ok /\ raan.ok /\ eccentricity.ok /\ arg_perigee.ok
       /\ mean_anomaly.ok /\ mean_motion.ok
    THEN [norad_id |-> norad_id.val,
          sat_name |-> sat_name,
          intl_designator |-> intl_des,
          epoch_utc |-> EpochDate(FullYear(epoch_year.val), epoch_day),
          fetched_at_utc |-> fetched_at,
          inclination |-> inclination,
          raan |-> raan,
          eccentricity |-> eccentricity,
          arg_perigee |-> arg_perigee,
          mean_anomaly |-> mean_anomaly,
          mean_motion |-> mean_motion,
          b_star_drag |-> bstar_val,
          rev_number |-> IF rev_number.ok THEN rev_number.val ELSE None]
    ELSE None

\* a faulty decoder that fails the record when the drag term does not parse
TleRecord_DragFatal(norad_id, intl_des, epoch_year, epoch_day, bstar_val, inclination, raan, eccentricity, arg_perigee, mean_anomaly, mean_motion, rev_number, sat_name, fetched_at) ==
    IF /\ norad_id.ok /\ epoch_year.ok /\ epoch_day.ok
       /\ inclination.ok /\ raan.ok /\ eccentricity.ok /\ arg_perigee.ok
       /\ mean_anomaly.ok /\ mean_motion.ok /\ rev_number.ok
       /\ bstar_val # None
    THEN [norad_id |-> norad_id.val,
          sat_name |-> sat_name,
          intl_designator |-> intl_des,
          epoch_utc |-> EpochDate(FullYear(epoch_year.val), epoch_day),
          fetched_at_utc |-> fetched_at,
          inclination |-> inclination,
          raan |-> raan,
          eccentricity |-> eccentricity,
          arg_perigee |-> arg_perigee,
          mean_anomaly |-> mean_anomaly,
          mean_motion |-> mean_motion,
          b_star_drag |-> bstar_val,
          rev_number |-> rev_number.val]
    ELSE None

\* the returned dict, or None when a conversion of the try block raised
TleRecord(norad_id, intl_des, epoch_year, epoch_day, bstar_val, inclination, raan, eccentricity, arg_perigee, mean_anomaly, mean_motion, rev_number, sat_name, fetched_at) ==
    IF /\ norad_id.ok /\ epoch_year.ok /\ epoch_day.ok
       /\ inclination.ok /\ raan.ok /\ eccentricity.ok /\ arg_perigee.ok
       /\ mean_anomaly.ok /\ mean_motion.ok /\ rev_number.ok
    THEN [norad_id |-> norad_id.val,
          sat_name |-> sat_name,
          intl_designator |-> intl_des,
          epoch_utc |-> EpochDate(FullYear(epoch_year.val), epoch_day),
          fetched_at_utc |-> fetched_at,
          inclination |-> inclination,
          raan |-> raan,
          eccentricity |-> eccentricity,
          arg_perigee |-> arg_perigee,
          mean_anomaly |-> mean_anomaly,
          mean_motion |-> mean_motion,
          b_star_drag |-> bstar_val,
          rev_number |-> rev_number.val]
    ELSE None

\* The column slices of the two lines; parse_bstar never raises.
parse_tle_pair(line1, line2, sat_name, fetched_at) ==
    TleRecord(ParseInt(Slice(line1, 2, 7)),
              Strip(Slice(line1, 9, 17)),
              ParseInt(Slice(line1, 18, 20)),
              ParseFloat(Slice(line1, 20, 32)),
              parse_bstar(Strip(Slice(line1, 53, 61))),
              ParseFloat(Slice(line2, 8, 16)),
              ParseFloat(Slice(line2, 17, 25)),
              ParseFloat(<<"0", ".">> \o Slice(line2, 26, 33)),
              ParseFloat(Slice(line2, 34, 42)),
              ParseFloat(Slice(line2, 43, 51)),
              ParseFloat(Slice(line2, 52, 63)),
              ParseInt(Slice(line2, 63, 68)),
              sat_name, fetched_at)

(* The two-line element text: the 69 columns of each line, field by field *)

\* line 1: line number, catalog id [2:7], classification, designator [9:17],
\* epoch year [18:20], epoch day [20:32], the two mean-motion derivatives,
\* drag term [53:61], ephemeris type, element set number, checksum
Line1(id5, des8, yy2, day12, bstar8) ==
    <<"1", " ">> \o id5 \o <<"U", " ">> \o des8 \o <<" ">> \o yy2 \o day12
    \o <<" ">> \o <<" ", ".", "0", "0", "0", "0", "1", "2", "3", "4">> \o <<" ">> \o <<" ", "0", "0", "0", "0", "0", "-", "0">>
    \o <<" ">> \o bstar8 \o <<" ", "0", " ">> \o <<" ", "9", "9", "9">> \o <<"5">>

\* line 2: line number, catalog id [2:7], inclination [8:16], RAAN [17:25],
\* eccentricity [26:33], argument of perigee [34:42], mean anomaly [43:51],
\* mean motion [52:63], revolution number [63:68], checksum
Line2(id5, incl8, raan8, ecc7, argp8, ma8, mm11, rev5) ==
    <<"2", " ">> \o id5 \o <<" ">> \o incl8 \o <<" ">> \o raan8 \o <<" ">> \o ecc7
    \o <<" ">> \o argp8 \o <<" ">> \o ma8 \o <<" ">> \o mm11 \o rev5 \o <<"7">>

\* the two decimal digits of n
TwoDigits(n) == <<DIGITS[(n \div 10) + 1], DIGITS[(n % 10) + 1]>>

ID_100 == <<"0", "0", "1", "0", "0">>
ID_200 == <<"0", "0", "2", "0", "0">>
DES_A == <<"1", "9", "0", "7", "4", "A", " ", " ">>
DES_B == <<"2", "0", "0", "0", "1", "B", " ", " ">>
DAY_MIDNIGHT == <<"1", "0", "0", ".", "0", "0", "0", "0", "0", "0", "0", "0">>
DAY_NOON == <<"1", "0", "0", ".", "5", "0", "0", "0", "0", "0", "0", "0">>
DAY_OLD == <<"0", "9", "8", ".", "5", "0", "0", "0", "0", "0", "0", "1">>
BSTAR_OK == <<" ", "4", "4", "5", "5", "9", "-", "4">>
INCL == <<" ", "5", "3", ".", "0", "5", "3", "6">>
RAAN == <<"1", "7", "6", ".", "8", "4", "6", "8">>
ECC == <<"0", "0", "0", "1", "2", "3", "4">>
ARGP == <<" ", "9", "2", ".", "5", "7", "3", "2">>
MANOM == <<"2", "6", "7", ".", "5", "4", "0", "0">>
MMOT == <<"1", "5", ".", "0", "6", "3", "9", "1", "2", "2", "3">>
REV == <<"2", "4", "3", "6", "0">>

\* a well-formed line 2 for catalog id id5
GoodLine2(id5) == Line2(id5, INCL, RAAN, ECC, ARGP, MANOM, MMOT, REV)

-----------------------------------------------------------------------------
(* Series.astype(str): the text of integers and of datetime columns *)

RECURSIVE NatStr(_)
NatStr(n) == IF n < 10 THEN <<DIGITS[n + 1]>> ELSE Append(NatStr(n \div 10), DIGITS[(n % 10) + 1])

\* str(n)
IntStr(n) == IF n < 0 THEN <<"-">> \o NatStr(0 - n) ELSE NatStr(n)

\* n in decimal, zero-padded to w digits
RECURSIVE Pad(_, _)
Pad(n, w) == IF w = 0 THEN << >> ELSE Append(Pad(n \div 10, w - 1), DIGITS[(n % 10) + 1])

YearOfDay(d) ==
    CHOOSE y \in (1900 + (d \div 366))..(1902 + (d \div 366)) :
        DaysBeforeYear(y) <= d /\ d < DaysBeforeYear(y + 1)

\* days before the first of month m in year y
DaysBeforeMonth(y, m) ==
    <<0, 31, 59, 90, 120, 151, 181, 212, 243, 273, 304, 334>>[m]
    + (IF m > 2 /\ IsLeap(y) THEN 1 ELSE 0)

\* the month of day doy (from 0) of year y
MonthOfDay(y, doy) ==
    CHOOSE k \in 1..12 :
        /\ DaysBeforeMonth(y, k) <= doy
        /\ (k = 12 \/ doy < DaysBeforeMonth(y, k + 1))

YmdStr(y, m, doy) ==
    Pad(y, 4) \o <<"-">> \o Pad(m, 2) \o <<"-">> \o Pad(doy - DaysBeforeMonth(y, m) + 1, 2)

DayOfYearStr(y, doy) == YmdStr(y, MonthOfDay(y, doy), doy)

DateInYearStr(y, d) == DayOfYearStr(y, d - DaysBeforeYear(y))

\* "%Y-%m-%d"
DateStr(d) == DateInYearStr(YearOfDay(d), d)

\* "%H:%M:%S"
TimeStr(sec) ==
    Pad(sec \div 3600, 2) \o <<":">> \o Pad((sec % 3600) \div 60, 2) \o <<":">> \o Pad(sec % 60, 2)

\* The format pandas picks for a whole datetime column (DatetimeArray.
\* _format_native_types): the date alone when every value is a midnight,
\* else date and time, with as many fraction digits as the finest value of
\* the column needs (none, 3 or 6 at microsecond precision).
ColumnFormat(col) ==
    IF \A i \in 1..Len(col) : col[i].sec = 0 /\ col[i].us = 0 THEN "date"
    ELSE IF \E i \in 1..Len(col) : col[i].us % 1000 # 0 THEN "us"
    ELSE IF \E i \in 1..Len(col) : col[i].us # 0 THEN "ms"
    ELSE "s"

DatetimeStr(t, fmt) ==
    IF fmt = "date" THEN DateStr(t.day)
    ELSE DateStr(t.day) \o <<" ">> \o TimeStr(t.sec)
         \o (IF fmt = "us" THEN <<".">> \o Pad(t.us, 6)
             ELSE IF fmt = "ms" THEN <<".">> \o Pad(t.us \div 1000, 3)
             ELSE << >>)

EpochColumn(frame) == [i \in 1..Len(frame) |-> frame[i].epoch_utc]

FormatColumn(col, fmt) == [i \in 1..Len(col) |-> DatetimeStr(col[i], fmt)]

\* pd.to_datetime(frame['epoch_utc']).astype(str), element by element
EpochStrs(frame) == FormatColumn(EpochColumn(frame), ColumnFormat(EpochColumn(frame)))

JoinKeys(frame, e) == [i \in 1..Len(frame) |-> IntStr(frame[i].norad_id) \o <<"_">> \o e[i]]

\* frame['norad_id'].astype(str) + "_" + pd.to_datetime(frame['epoch_utc']).astype(str)
KeyColumn(frame) == JoinKeys(frame, EpochStrs(frame))

-----------------------------------------------------------------------------
(* DataFrame selection *)

MaxOf(S) == CHOOSE i \in S : \A j \in S : j <= i

MinOf(S) == CHOOSE i \in S : \A j \in S : i <= j

\* the rows of frame at the indices in S, in frame order
RECURSIVE Pick(_, _)
Pick(frame, S) ==
    IF S = {} THEN << >>
    ELSE Append(Pick(frame, S \ {MaxOf(S)}), frame[MaxOf(S)])

ColumnSet(frame, col) == {frame[i][col] : i \in 1..Len(frame)}

\* SELECT norad_id FROM dim_satellites
ExistingIds(dim_satellites) == [i \in 1..Len(dim_satellites) |-> [norad_id |-> dim_satellites[i].norad_id]]

\* df[~df['norad_id'].isin(existing_ids['norad_id'])], as row indices
NewSats(df, existing_ids) ==
    {i \in 1..Len(df) : df[i].norad_id \notin ColumnSet(existing_ids, "norad_id")}

\* a faulty drop_duplicates that drops nothing
DropDuplicates_KeepAll(df, rows) == rows

\* a faulty drop_duplicates that keeps the last row of each id
DropDuplicates_KeepLast(df, rows) ==
    {i \in rows : \A j \in rows : j > i => df[j].norad_id # df[i].norad_id}

\* drop_duplicates(subset=['norad_id']) keeps the first row of each id
DropDuplicates(df, rows) ==
    {i \in rows : \A j \in rows : j < i => df[j].norad_id # df[i].norad_id}

\* df[['norad_id', 'sat_name', 'intl_designator']]
SatColumns(df) ==
    [i \in 1..Len(df) |-> [norad_id |-> df[i].norad_id,
                           sat_name |-> df[i].sat_name,
                           intl_designator |-> df[i].intl_designator]]

\* new_sats = df[~df['norad_id'].isin(existing_ids['norad_id'])]
\* unique_new_sats = new_sats[[3 columns]].drop_duplicates(subset=['norad_id'])
UniqueNewSats(df, existing_ids) ==
    Pick(SatColumns(df), DropDuplicates(df, NewSats(df, existing_ids)))

\* the window of the telemetry query, in days
WindowDays == 3

\* epoch_utc > NOW() - INTERVAL '3 days'
InWindow(epoch_utc, clock) ==
    \/ epoch_utc.day > clock - WindowDays
    \/ epoch_utc.day = clock - WindowDays /\ (epoch_utc.sec > 0 \/ epoch_utc.us > 0)

KeyColumns(fact_telemetry) ==
    [i \in 1..Len(fact_telemetry) |->
        [norad_id |-> fact_telemetry[i].norad_id, epoch_utc |-> fact_telemetry[i].epoch_utc]]

\* a faulty query that has lost its WHERE clause
RecentData_NoWindow(fact_telemetry, clock) == KeyColumns(fact_telemetry)

\* SELECT norad_id, epoch_utc FROM fact_telemetry WHERE epoch_utc > NOW() - INTERVAL '3 days'
RecentData(fact_telemetry, clock) ==
    Pick(KeyColumns(fact_telemetry),
         {i \in 1..Len(fact_telemetry) : InWindow(fact_telemetry[i].epoch_utc, clock)})

\* fact_telem = df[[the eleven telemetry columns]]
FactTelem(df) ==
    [i \in 1..Len(df) |->
        [c \in DOMAIN df[i] \ {"sat_name", "intl_designator"} |-> df[i][c]]]

\* fact_telem[~fact_telem['key'].isin(recent_data['key'])]
NotIn(fact_telem, key, recent_key) ==
    Pick(fact_telem, {i \in 1..Len(fact_telem) : \A j \in 1..Len(recent_key) : key[i] # recent_key[j]})

\* new_telemetry = fact_telem[~fact_telem['key'].isin(recent_data['key'])]
NewTelemetry(fact_telem, recent_data) ==
    NotIn(fact_telem, KeyColumn(fact_telem), KeyColumn(recent_data))

-----------------------------------------------------------------------------
(* The batch loop of main *)

\* the positions of the lines of text that hold more than whitespace
Solid(text) == {i \in 1..Len(text) : ~IsBlank(text[i])}

\* the lines a..b of text, the first stripped on the left, the last on the right
Trimmed(text, a, b) ==
    [k \in 1..(b - a + 1) |->
        [src |-> a + k - 2,
         text |-> IF k = 1 /\ a = b THEN Strip(text[a])
                  ELSE IF k = 1 THEN LStrip(text[a])
                  ELSE IF k = b - a + 1 THEN RStrip(text[b])
                  ELSE text[a + k - 1]]]

\* response.text.strip().splitlines(), the text given as its lines: strip()
\* removes the leading and trailing lines that hold only whitespace.  Each
\* line comes with src, its position (from 0) in the text as fetched.
TextLines(text) ==
    IF Solid(text) = {} THEN << >> ELSE Trimmed(text, MinOf(Solid(text)), MaxOf(Solid(text)))

\* for i in range(0, len(lines), 3): if i + 2 < len(lines): the arguments of
\* each parse_tle_pair call, as name, l1, l2
BatchCalls(lines) ==
    [k \in 1..Cardinality({i \in 0..(Len(lines) - 1) : i % 3 = 0 /\ i + 2 < Len(lines)}) |->
        [name |-> Strip(lines[3 * (k - 1) + 1].text),
         l1 |-> Strip(lines[3 * (k - 1) + 2].text),
         l2 |-> Strip(lines[3 * (k - 1) + 3].text),
         src |-> [name |-> lines[3 * (k - 1) + 1].src,
                  l1 |-> lines[3 * (k - 1) + 2].src,
                  l2 |-> lines[3 * (k - 1) + 3].src]]]

\* a faulty loop that stops at the first group that fails to decode
KeepParsed_StopAtFailure(parsed) ==
    SubSeq(parsed, 1, MinOf({k \in 1..(Len(parsed) + 1) : k = Len(parsed) + 1 \/ parsed[k] = None}) - 1)

\* if parsed: records.append(parsed)
KeepParsed(parsed) == Pick(parsed, {k \in 1..Len(parsed) : parsed[k] # None})

BatchRecords(calls, fetched_at) ==
    KeepParsed([k \in 1..Len(calls) |->
                   parse_tle_pair(calls[k].l1, calls[k].l2, calls[k].name, fetched_at)])

-----------------------------------------------------------------------------
(* fetch_space_weather *)

\* row[0].split(" ")[0]
FirstWord(s) ==
    IF \A i \in 1..Len(s) : s[i] # " " THEN s
    ELSE SubSeq(s, 1, MinOf({i \in 1..Len(s) : s[i] = " "}) - 1)

\* the order of str on texts of digits and "-"
CharOrd(c) == IF IsDigit(c) THEN DigitVal(c) + 1 ELSE 0

StrLess(a, b) ==
    \E i \in 1..(Min(Len(a), Len(b)) + 1) :
        /\ \A j \in 1..(i - 1) : a[j] = b[j]
        /\ IF i > Len(a) THEN i <= Len(b)
           ELSE i <= Len(b) /\ CharOrd(a[i]) < CharOrd(b[i])

\* the order of non-negative floats
FloatLess(x, y) ==
    \/ x.ip < y.ip
    \/ x.ip = y.ip /\ NumVal(x.fd) * Pow10(8 - Len(x.fd)) < NumVal(y.fd) * Pow10(8 - Len(y.fd))

LastDate(dates) == CHOOSE d \in dates : \A e \in dates : e = d \/ StrLess(e, d)

\* the rows of a set of dates, ascending by date, each with the value of f
RECURSIVE SortedByDate(_, _)
SortedByDate(dates, f) ==
    IF dates = {} THEN << >>
    ELSE Append(SortedByDate(dates \ {LastDate(dates)}, f),
                [date_utc |-> LastDate(dates), f10_7_flux |-> f[LastDate(dates)]])

WeatherRows(rows, flux) ==
    IF \A i \in 1..Len(rows) : flux[i].ok
    THEN [ok |-> TRUE,
          rows |-> [i \in 1..Len(rows) |->
                       [date_utc |-> FirstWord(rows[i][1]), f10_7_flux |-> flux[i]]]]
    ELSE Failed

\* for row in data[1:]: the records, or Failed when float(row[1]) raises
WeatherRecords(data) ==
    WeatherRows(SubSeq(data, 2, Len(data)),
                [i \in 1..(Len(data) - 1) |-> ParseFloat(data[i + 1][2])])

FluxOn(recs, d) == {recs[i].f10_7_flux : i \in {j \in 1..Len(recs) : recs[j].date_utc = d}}

MaxFlux(of) == CHOOSE x \in of : \A y \in of : ~FloatLess(x, y)

\* df_weather.groupby('date_utc')['f10_7_flux'].max().reset_index()
DailyMax(recs) ==
    SortedByDate({recs[i].date_utc : i \in 1..Len(recs)},
                 [d \in {recs[i].date_utc : i \in 1..Len(recs)} |-> MaxFlux(FluxOn(recs, d))])

\* new_weather = df_daily[~df_daily['date_utc'].isin(existing['date_utc'])]
NewWeather(df_daily, existing) ==
    Pick(df_daily, {i \in 1..Len(df_daily) : df_daily[i].date_utc \notin existing})

\* the table after fetch_space_weather ran to its end on the records recs;
\* an empty record list makes groupby raise, which the except clause absorbs
WeatherAfter(fact_space_weather, recs) ==
    IF recs.ok /\ recs.rows # << >>
    THEN fact_space_weather
         \o NewWeather(DailyMax(recs.rows),
                       {fact_space_weather[i].date_utc : i \in 1..Len(fact_space_weather)})
    ELSE fact_space_weather

-----------------------------------------------------------------------------
(* Inputs of the ingestion cycle *)

MaxCycles == 2

MaxTriplets == 2

MaxTicks == 1

MaxFailures == 1

MaxLines == 8

\* the clock at the start: 2024-04-10 00:00
Now0 == DaysBeforeYear(2024) + 100

YY_24 == TwoDigits(24)

\* The lines a payload is made of.  The state holds a payload as the handles
\* of its lines; Text gives the characters of a line.
Text(h) ==
    CASE h = "A" -> <<"A">>
      [] h = "B" -> <<"B">>
      [] h = "C" -> <<"C">>
      [] h = "X" -> <<"X">>
      [] h = " A " -> <<" ", "A", " ">>
      [] h = "" -> << >>
      [] h = "  " -> <<" ", " ">>
      [] h = "1 100 A midnight" -> Line1(ID_100, DES_A, YY_24, DAY_MIDNIGHT, BSTAR_OK)
      [] h = "1 100 B noon" -> Line1(ID_100, DES_B, YY_24, DAY_NOON, BSTAR_OK)
      [] h = "1 200 B old" -> Line1(ID_200, DES_B, YY_24, DAY_OLD, BSTAR_OK)
      [] h = "2 100" -> GoodLine2(ID_100)
      [] h = "2 200" -> GoodLine2(ID_200)
      [] h = "2 100 cut" -> SubSeq(GoodLine2(ID_100), 1, 60)

PayloadText(p) == [i \in 1..Len(p) |-> Text(p[i])]

\* the (name line, line 1, line 2) groups of the cycle's payloads; the last
\* one's line 2 stops before the revolution number, so its decode fails
Groups ==
    { <<"A", "1 100 A midnight", "2 100">>,
      <<"C", "1 100 B noon", "2 100">>,
      <<"B", "1 200 B old", "2 200">>,
      <<"X", "1 100 B noon", "2 100 cut">> }

RECURSIVE Flatten(_)
Flatten(gs) == IF gs = << >> THEN << >> ELSE gs[1] \o Flatten(Tail(gs))

\* the payloads the TLE fetch may return: up to MaxTriplets groups
Payloads == {Flatten(gs) : gs \in UNION {[1..n -> Groups] : n \in 0..MaxTriplets}}

\* the payloads of the batch-parser harness: any lines, up to MaxLines
BatchLines == {"1 100 A midnight", "2 100", "  "}

BatchPayloads == UNION {[1..n -> BatchLines] : n \in 0..MaxLines}

\* the bodies the weather fetch may return: a header row, then [time_tag, flux]
WEATHER_HEADER == <<<<"t", "i", "m", "e", "_", "t", "a", "g">>, <<"f", "l", "u", "x">>>>

WeatherBodies ==
    { <<WEATHER_HEADER, <<<<"2", "0", "2", "4", "-", "0", "4", "-", "0", "9", " ", "2", "0">>, <<"1", "4", "0">>>>, <<<<"2", "0", "2", "4", "-", "0", "4", "-", "0", "8", " ", "2", "0">>, <<"1", "5", "0">>>>, <<<<"2", "0", "2", "4", "-", "0", "4", "-", "0", "8", " ", "2", "2">>, <<"1", "6", "0">>>>>>,
      <<WEATHER_HEADER, <<<<"2", "0", "2", "4", "-", "0", "4", "-", "0", "9", " ", "2", "0">>, <<"X">>>>>> }

\* a store left by an earlier cycle that ingested satellite 200 at noon of day 100
SeedRecord ==
    parse_tle_pair(Line1(ID_200, DES_B, YY_24, DAY_NOON, BSTAR_OK), GoodLine2(ID_200),
                   <<"B">>, Now0 - 1)

InitStores ==
    { [dim |-> << >>, tele |-> << >>],
      [dim |-> UniqueNewSats(<<SeedRecord>>, << >>),
       tele |-> NewTelemetry(FactTelem(<<SeedRecord>>), << >>)] }
-----------------------------------------------------------------------------
(* The state machine of main *)

Init ==
    /\ \E st \in InitStores : dim = st.dim /\ tele = st.tele /\ dim0 = st.dim /\ tele0 = st.tele
    /\ weather = << >>
    /\ weather0 = << >>
    /\ now = Now0
    /\ pc = "idle"
    /\ cycles = 0
    /\ payload = << >>
    /\ attempts = << >>
    /\ records = << >>
    /\ queries = {}
    /\ outcome = "none"
    /\ faults = {}
    /\ prev = [payload |-> << >>, outcome |-> "none"]
    /\ failures = 0
    /\ d_in = [line1 |-> << >>, line2 |-> << >>, sat_name |-> << >>]
    /\ d_out = None

\* a new call of main: what the model remembers of the cycle before
BeginCycle ==
    /\ pc = "idle"
    /\ cycles < MaxCycles
    /\ cycles' = cycles + 1
    /\ dim0' = dim
    /\ tele0' = tele
    /\ weather0' = weather
    /\ prev' = [payload |-> payload, outcome |-> outcome]
    /\ payload' = << >>
    /\ attempts' = << >>
    /\ records' = << >>
    /\ queries' = {}

\* if not DATABASE_URL: return
MainNoDatabaseUrl ==
    /\ BeginCycle
    /\ outcome' = "no_database_url"
    /\ faults' = {}
    /\ UNCHANGED <<dim, tele, weather, now, pc, failures, d_in, d_out>>

\* main up to the TLE fetch: fetch_space_weather(engine) ran to its end
MainWeather(data) ==
    /\ BeginCycle
    /\ weather' = WeatherAfter(weather, WeatherRecords(data))
    /\ faults' = {}
    /\ failures' = failures
    /\ outcome' = "running"
    /\ pc' = "fetch"
    /\ UNCHANGED <<dim, tele, now, d_in, d_out>>

\* a faulty weather stage whose exception leaves main
MainWeatherFails_Uncaught ==
    /\ BeginCycle
    /\ failures < MaxFailures
    /\ failures' = failures + 1
    /\ faults' = {"weather"}
    /\ outcome' = "crashed"
    /\ pc' = "idle"
    /\ UNCHANGED <<dim, tele, weather, now, d_in, d_out>>

\* fetch_space_weather: requests.get, r.json(), read_sql or to_sql raised; the
\* except clause prints and returns
MainWeatherFails ==
    /\ BeginCycle
    /\ failures < MaxFailures
    /\ failures' = failures + 1
    /\ faults' = {"weather"}
    /\ outcome' = "running"
    /\ pc' = "fetch"
    /\ UNCHANGED <<dim, tele, weather, now, d_in, d_out>>

\* requests.get(TLE_URL) returned a success response
FetchTle(text) ==
    /\ pc = "fetch"
    /\ payload' = text
    /\ pc' = "parse"
    /\ UNCHANGED <<dim, tele, weather, now, cycles, attempts, records, queries,
                   outcome, dim0, tele0, weather0, faults, prev, failures, d_in, d_out>>

\* a faulty except clause that prints and goes on, with whatever response it holds
FetchTleFails_NoReturn ==
    /\ pc = "fetch"
    /\ failures < MaxFailures
    /\ failures' = failures + 1
    /\ faults' = faults \cup {"tle_fetch"}
    /\ outcome' = "network_error"
    /\ payload' \in Payloads
    /\ pc' = "parse"
    /\ UNCHANGED <<dim, tele, weather, now, cycles, attempts, records,
                   queries, dim0, tele0, weather0, prev, d_in, d_out>>

\* requests.get or raise_for_status raised: print, return
FetchTleFails ==
    /\ pc = "fetch"
    /\ failures < MaxFailures
    /\ failures' = failures + 1
    /\ faults' = faults \cup {"tle_fetch"}
    /\ outcome' = "network_error"
    /\ pc' = "idle"
    /\ UNCHANGED <<dim, tele, weather, now, cycles, payload, attempts, records,
                   queries, dim0, tele0, weather0, prev, d_in, d_out>>

\* the batch loop over the parse_tle_pair calls
BatchLoop(calls) ==
    /\ attempts' = [k \in 1..Len(calls) |-> calls[k].src]
    /\ records' = BatchRecords(calls, now)

\* a faulty batch loop that goes on to the stages with no records
ParseBatch_NoReturn ==
    /\ pc = "parse"
    /\ BatchLoop(BatchCalls(TextLines(PayloadText(payload))))
    /\ outcome' = (IF records' = << >> THEN "no_records" ELSE outcome)
    /\ pc' = "stageA"
    /\ UNCHANGED <<dim, tele, weather, now, cycles, payload, queries,
                   dim0, tele0, weather0, faults, prev, failures, d_in, d_out>>

\* the batch loop; if not records: return
ParseBatch ==
    /\ pc = "parse"
    /\ BatchLoop(BatchCalls(TextLines(PayloadText(payload))))
    /\ IF records' = << >>
       THEN outcome' = "no_records" /\ pc' = "idle"
       ELSE outcome' = outcome /\ pc' = "stageA"
    /\ UNCHANGED <<dim, tele, weather, now, cycles, payload, queries,
                   dim0, tele0, weather0, faults, prev, failures, d_in, d_out>>

\* the name and designator of the batch row of the catalog id of row, if any
Refreshed(row, df) ==
    IF row.norad_id \in {df[i].norad_id : i \in 1..Len(df)}
    THEN SatColumns(df)[MinOf({i \in 1..Len(df) : df[i].norad_id = row.norad_id})]
    ELSE row

\* a faulty stage A that also rewrites the rows of the satellites it knows
UpdateSatellites_Upsert ==
    /\ pc = "stageA"
    /\ queries' = queries \cup {"dim_satellites"}
    /\ dim' = [i \in 1..Len(dim) |-> Refreshed(dim[i], records)] \o UniqueNewSats(records, ExistingIds(dim))
    /\ pc' = "stageB"
    /\ UNCHANGED <<tele, weather, now, cycles, payload, attempts, records,
                   outcome, dim0, tele0, weather0, faults, prev, failures, d_in, d_out>>

\* A. Update Satellites Table
UpdateSatellites ==
    /\ pc = "stageA"
    /\ queries' = queries \cup {"dim_satellites"}
    /\ dim' = dim \o UniqueNewSats(records, ExistingIds(dim))
    /\ pc' = "stageB"
    /\ UNCHANGED <<tele, weather, now, cycles, payload, attempts, records,
                   outcome, dim0, tele0, weather0, faults, prev, failures, d_in, d_out>>

\* a faulty stage A whose query failure is swallowed, stage B going on
UpdateSatellitesQueryFails_Swallowed ==
    /\ pc = "stageA"
    /\ queries' = queries \cup {"dim_satellites"}
    /\ failures < MaxFailures
    /\ failures' = failures + 1
    /\ faults' = faults \cup {"dim_query"}
    /\ pc' = "stageB"
    /\ UNCHANGED <<dim, tele, weather, now, cycles, payload, attempts, records,
                   outcome, dim0, tele0, weather0, prev, d_in, d_out>>

\* pd.read_sql raised: nothing in main catches it
UpdateSatellitesQueryFails ==
    /\ pc = "stageA"
    /\ queries' = queries \cup {"dim_satellites"}
    /\ failures < MaxFailures
    /\ failures' = failures + 1
    /\ faults' = faults \cup {"dim_query"}
    /\ outcome' = "crashed"
    /\ pc' = "idle"
    /\ UNCHANGED <<dim, tele, weather, now, cycles, payload, attempts, records,
                   dim0, tele0, weather0, prev, d_in, d_out>>

\* unique_new_sats.to_sql raised: its transaction rolls back, nothing catches it
UpdateSatellitesAppendFails ==
    /\ pc = "stageA"
    /\ UniqueNewSats(records, ExistingIds(dim)) # << >>
    /\ queries' = queries \cup {"dim_satellites"}
    /\ failures < MaxFailures
    /\ failures' = failures + 1
    /\ faults' = faults \cup {"dim_append"}
    /\ outcome' = "crashed"
    /\ pc' = "idle"
    /\ UNCHANGED <<dim, tele, weather, now, cycles, payload, attempts, records,
                   dim0, tele0, weather0, prev, d_in, d_out>>

\* B. Update Telemetry Table
UpdateTelemetry ==
    /\ pc = "stageB"
    /\ queries' = queries \cup {"fact_telemetry"}
    /\ tele' = tele \o NewTelemetry(FactTelem(records), RecentData(tele, now))
    /\ outcome' = "ok"
    /\ pc' = "idle"
    /\ UNCHANGED <<dim, weather, now, cycles, payload, attempts, records,
                   dim0, tele0, weather0, faults, prev, failures, d_in, d_out>>

\* pd.read_sql raised inside the try: except prints the save error
UpdateTelemetryQueryFails ==
    /\ pc = "stageB"
    /\ queries' = queries \cup {"fact_telemetry"}
    /\ failures < MaxFailures
    /\ failures' = failures + 1
    /\ faults' = faults \cup {"tele_query"}
    /\ outcome' = "save_error"
    /\ pc' = "idle"
    /\ UNCHANGED <<dim, tele, weather, now, cycles, payload, attempts, records,
                   dim0, tele0, weather0, prev, d_in, d_out>>

\* new_telemetry.to_sql raised inside the try: its transaction rolls back
UpdateTelemetryAppendFails ==
    /\ pc = "stageB"
    /\ NewTelemetry(FactTelem(records), RecentData(tele, now)) # << >>
    /\ queries' = queries \cup {"fact_telemetry"}
    /\ failures < MaxFailures
    /\ failures' = failures + 1
    /\ faults' = faults \cup {"tele_append"}
    /\ outcome' = "save_error"
    /\ pc' = "idle"
    /\ UNCHANGED <<dim, tele, weather, now, cycles, payload, attempts, records,
                   dim0, tele0, weather0, prev, d_in, d_out>>

\* a day passes between two cycles
Tick ==
    /\ pc = "idle"
    /\ 0 < cycles /\ cycles < MaxCycles
    /\ now < Now0 + MaxTicks
    /\ now' = now + 1
    /\ UNCHANGED <<dim, tele, weather, pc, cycles, payload, attempts, records,
                   queries, outcome, dim0, tele0, weather0, faults, prev, failures, d_in, d_out>>

Next ==
    \/ MainNoDatabaseUrl
    \/ \E data \in WeatherBodies : MainWeather(data)
    \/ MainWeatherFails
    \/ \E text \in Payloads : FetchTle(text)
    \/ FetchTleFails
    \/ ParseBatch
    \/ UpdateSatellites
    \/ UpdateSatellitesQueryFails
    \/ UpdateSatellitesAppendFails
    \/ UpdateTelemetry
    \/ UpdateTelemetryQueryFails
    \/ UpdateTelemetryAppendFails
    \/ Tick

Spec == Init /\ [][Next]_vars

-----------------------------------------------------------------------------
(* The batch loop alone, on payloads of any lines *)

InitBatch ==
    /\ dim = << >> /\ tele = << >> /\ weather = << >>
    /\ dim0 = << >> /\ tele0 = << >> /\ weather0 = << >>
    /\ now = Now0
    /\ pc = "parse"
    /\ cycles = 1
    /\ payload \in BatchPayloads
    /\ attempts = << >>
    /\ records = << >>
    /\ queries = {}
    /\ outcome = "running"
    /\ faults = {}
    /\ prev = [payload |-> << >>, outcome |-> "none"]
    /\ failures = 0
    /\ d_in = [line1 |-> << >>, line2 |-> << >>, sat_name |-> << >>]
    /\ d_out = None

NextBatch == ParseBatch

SpecBatch == InitBatch /\ [][NextBatch]_vars

-----------------------------------------------------------------------------
(* parse_tle_pair alone, on lines cut short *)

\* how many characters may be missing from the end of a line
MaxCut == 69

FullLine1 == Line1(ID_100, DES_A, YY_24, DAY_NOON, BSTAR_OK)

FullLine2 == GoodLine2(ID_100)

\* the first n characters of line, for every n down to MaxCut short of all
Cuts(line) == {SubSeq(line, 1, n) : n \in {k \in 0..Len(line) : k >= Len(line) - MaxCut}}

CutInputs ==
    {[line1 |-> l1, line2 |-> l2, sat_name |-> <<"A">>] : l1 \in Cuts(FullLine1), l2 \in Cuts(FullLine2)}

\* the texts of the columns that parse_tle_pair reads, all well-formed
GoodFields ==
    [id |-> ID_100, yy |-> YY_24, day |-> DAY_NOON, bstar |-> BSTAR_OK,
     incl |-> INCL, raan |-> RAAN, ecc |-> ECC, argp |-> ARGP, ma |-> MANOM, mm |-> MMOT, rev |-> REV]

\* the columns converted by int() or float() in the try block
NumericFields == {"id", "yy", "day", "incl", "raan", "ecc", "argp", "ma", "mm", "rev"}

\* a column of w blanks, and a column whose first character is a letter
Blank(w) == [i \in 1..w |-> " "]

Spoil(t) == [t EXCEPT ![1] = "X"]

\* drag-term columns: plain exponent forms, a negative mantissa, a column
\* with no sign before the exponent, a blank column, letters, a plain decimal
BSTAR_PLUS == <<" ", "1", "2", "3", "4", "5", "+", "1">>
BSTAR_NEG == <<"-", "1", "1", "6", "0", "6", "-", "4">>
BSTAR_NOSIGN == <<" ", "0", "0", "0", "0", "0", " ", "0">>
BSTAR_DECIMAL == <<" ", " ", "0", ".", "0", "0", "0", "5">>

DragTexts == {BSTAR_OK, BSTAR_PLUS, BSTAR_NEG, BSTAR_NOSIGN, BSTAR_DECIMAL, Blank(8), Spoil(BSTAR_OK)}

\* the column sets of the decoder inputs: one numeric column blank or
\* spoiled, under every drag-term column; every two-digit epoch year
FieldInputs ==
    {[GoodFields EXCEPT !.bstar = b] : b \in DragTexts}
    \cup {[GoodFields EXCEPT ![n] = Blank(Len(GoodFields[n])), !.bstar = b] : n \in NumericFields, b \in DragTexts}
    \cup {[GoodFields EXCEPT ![n] = Spoil(GoodFields[n]), !.bstar = b] : n \in NumericFields, b \in DragTexts}
    \cup {[GoodFields EXCEPT !.yy = TwoDigits(y)] : y \in 0..99}

\* the two lines that carry the columns f
LinesOf(f) ==
    [line1 |-> Line1(f.id, DES_A, f.yy, f.day, f.bstar),
     line2 |-> Line2(f.id, f.incl, f.raan, f.ecc, f.argp, f.ma, f.mm, f.rev),
     sat_name |-> <<"A">>]

DecodeInputs == CutInputs \cup {LinesOf(f) : f \in FieldInputs}

InitDecode ==
    /\ dim = << >> /\ tele = << >> /\ weather = << >>
    /\ dim0 = << >> /\ tele0 = << >> /\ weather0 = << >>
    /\ now = Now0
    /\ pc = "decode"
    /\ cycles = 0
    /\ payload = << >>
    /\ attempts = << >>
    /\ records = << >>
    /\ queries = {}
    /\ outcome = "none"
    /\ faults = {}
    /\ prev = [payload |-> << >>, outcome |-> "none"]
    /\ failures = 0
    /\ d_in \in DecodeInputs
    /\ d_out = None

\* one call parse_tle_pair(line1, line2, sat_name, fetched_at)
Decode ==
    /\ pc = "decode"
    /\ d_out' = parse_tle_pair(d_in.line1, d_in.line2, d_in.sat_name, now)
    /\ pc' = "decoded"
    /\ UNCHANGED <<dim, tele, weather, now, cycles, payload, attempts, records, queries,
                   outcome, dim0, tele0, weather0, faults, prev, failures, d_in>>

NextDecode == Decode

SpecDecode == InitDecode /\ [][NextDecode]_vars

-----------------------------------------------------------------------------
(* Properties of the ingestion cycle *)

\* the cycle has run stage A to its end
StageADone == pc = "stageB" \/ (pc = "idle" /\ outcome \in {"ok", "save_error"})

\* the rows the current cycle appended to a table that held old
Appended(table, old) == SubSeq(table, Len(old) + 1, Len(table))

IdsOf(frame) == {frame[i].norad_id : i \in 1..Len(frame)}

\* the position in frame of the first row of catalog id
FirstOf(frame, id) == MinOf({k \in 1..Len(frame) : frame[k].norad_id = id})

\* how many rows of frame carry the catalog id and epoch of row
CountOf(frame, row) ==
    Cardinality({j \in 1..Len(frame) :
                    frame[j].norad_id = row.norad_id /\ frame[j].epoch_utc = row.epoch_utc})

\* the row's epoch lies inside the window of the cycle that decoded it: the
\* cycle's clock is the fetch time its rows carry
InCycleWindow(row) == InWindow(row.epoch_utc, row.fetched_at_utc)

\* two rows of the batch carry the same catalog id
BatchRepeatsAnId == \E i, j \in 1..Len(records) : i < j /\ records[i].norad_id = records[j].norad_id

\* C1: the dimension table never holds two rows with the same catalog id,
\* whatever cycles ran on whatever payloads, from a table that held none.
C1_OneRowPerCatalogId ==
    \A i, j \in 1..Len(dim) : i # j => dim[i].norad_id # dim[j].norad_id

\* a second cycle ran to its end on a batch that repeats an id, and the table holds two satellites
C1_Witness ==
    /\ pc = "idle" /\ outcome = "ok" /\ cycles = 2
    /\ BatchRepeatsAnId
    /\ Len(dim) >= 2

\* C2 as stated: when a cycle ran twice in succession on the same payload and
\* every decoded epoch lies inside the window of the second run, the second
\* run appended no dimension row and no telemetry row.
C2_SecondRunAppendsNothing ==
    (/\ pc = "idle" /\ outcome = "ok"
     /\ prev.outcome = "ok" /\ prev.payload = payload
     /\ \A i \in 1..Len(records) : InCycleWindow(records[i]))
    => dim = dim0 /\ tele = tele0

\* C3: stage A appends exactly the batch rows whose catalog id the table did
\* not hold, one per id, in batch order, each with the name and designator of
\* the first batch row of its id.
C3_UniqueNewSats ==
    StageADone =>
        LET added == Appended(dim, dim0)
        IN  /\ \A i \in 1..Len(added) : added[i].norad_id \notin IdsOf(dim0)
            /\ \A i, j \in 1..Len(added) : i # j => added[i].norad_id # added[j].norad_id
            /\ \A k \in 1..Len(records) :
                  records[k].norad_id \notin IdsOf(dim0) => records[k].norad_id \in IdsOf(added)
            /\ \A i \in 1..Len(added) :
                  /\ added[i].norad_id \in IdsOf(records)
                  /\ added[i] = [norad_id |-> added[i].norad_id,
                                 sat_name |-> records[FirstOf(records, added[i].norad_id)].sat_name,
                                 intl_designator |-> records[FirstOf(records, added[i].norad_id)].intl_designator]
            /\ \A i, j \in 1..Len(added) :
                  i < j => FirstOf(records, added[i].norad_id) < FirstOf(records, added[j].norad_id)

\* stage A appended a satellite from a batch that names it twice, under two
\* names, next to a satellite the table already held
C3_Witness ==
    /\ StageADone
    /\ dim0 # << >>
    /\ Appended(dim, dim0) # << >>
    /\ \E i, j \in 1..Len(records) :
          /\ i < j
          /\ records[i].norad_id = records[j].norad_id
          /\ records[i].sat_name # records[j].sat_name
          /\ records[i].norad_id \notin IdsOf(dim0)

\* the rows of the table that the telemetry query of a cycle at clock returns
WindowRows(table, clock) == {j \in 1..Len(table) : InWindow(table[j].epoch_utc, clock)}

\* C4 as stated: stage B appends exactly the batch rows whose catalog id and
\* epoch equal those of no row of the recent window, in batch order.
C4_DropsExactlyTheWindowDuplicates ==
    (pc = "idle" /\ outcome = "ok") =>
        tele = tele0 \o Pick(FactTelem(records),
                             {i \in 1..Len(records) :
                                 \A j \in WindowRows(tele0, records[i].fetched_at_utc) :
                                     \/ tele0[j].norad_id # records[i].norad_id
                                     \/ tele0[j].epoch_utc # records[i].epoch_utc})

\* C5: a batch row whose catalog id and epoch are already stored, with the
\* epoch outside the window of this cycle, is appended again by stage B.
C5_OldDuplicateIsAppendedAgain ==
    (pc = "idle" /\ outcome = "ok") =>
        \A i \in 1..Len(records) :
            (CountOf(tele0, records[i]) > 0 /\ ~InCycleWindow(records[i]))
            => CountOf(tele, records[i]) > CountOf(tele0, records[i])

\* a cycle ended after its batch brought back a row stored before the window
C5_Witness ==
    /\ pc = "idle" /\ outcome = "ok"
    /\ \E i \in 1..Len(records) :
          /\ CountOf(tele0, records[i]) > 0
          /\ ~InCycleWindow(records[i])
          /\ CountOf(tele, records[i]) >= 2

\* C6 as stated: when the query for the existing catalog ids fails the cycle
\* still queries the recent window, and when the recent-window query fails
\* the dimension rows selected in the cycle are persisted.
C6_QueryFailureStopsOneStageOnly ==
    /\ ("dim_query" \in faults /\ pc = "idle") => "fact_telemetry" \in queries
    /\ ("tele_query" \in faults /\ pc = "idle") =>
          dim = dim0 \o UniqueNewSats(records, ExistingIds(dim0))

\* C7 as stated: when the TLE fetch fails the store is exactly as it was at
\* the start of the cycle.
C7_FetchFailureLeavesStore ==
    "tle_fetch" \in faults => dim = dim0 /\ tele = tele0 /\ weather = weather0

\* C7: when the TLE fetch fails the cycle ends as a network error with the
\* dimension and telemetry tables as they were at its start; the weather table
\* keeps its rows and may have gained the rows of the weather stage.
C7_FetchFailureLeavesSatelliteTables ==
    "tle_fetch" \in faults =>
        /\ pc = "idle" /\ outcome = "network_error"
        /\ dim = dim0 /\ tele = tele0
        /\ Len(weather0) <= Len(weather)
        /\ SubSeq(weather, 1, Len(weather0)) = weather0

\* the TLE fetch failed in a cycle whose weather stage had saved rows, on a
\* store that held satellites
C7_Witness ==
    /\ "tle_fetch" \in faults
    /\ Len(weather) > Len(weather0)
    /\ dim # << >> /\ tele # << >>

\* the cycle has run its batch loop and no group decoded
NothingDecoded ==
    /\ pc \notin {"fetch", "parse"}
    /\ outcome \notin {"none", "no_database_url", "network_error"}
    /\ records = << >>

\* C8: a cycle whose payload is empty or whose groups all fail to decode
\* ends without raising, queries neither the dimension nor the telemetry
\* table and appends to neither.
C8_NoRecordsIsNoOp ==
    NothingDecoded =>
        /\ pc = "idle" /\ outcome = "no_records"
        /\ queries \cap {"dim_satellites", "fact_telemetry"} = {}
        /\ dim = dim0 /\ tele = tele0

\* a cycle ended on a payload whose only group failed to decode, on a store that held rows
C8_Witness ==
    /\ NothingDecoded
    /\ Len(attempts) = 1
    /\ dim # << >>

-----------------------------------------------------------------------------
(* Properties of the batch loop *)

\* the decode of the group of lines at positions at.name, at.l1, at.l2 of the payload
DecodeAt(at) ==
    parse_tle_pair(Strip(Text(payload[at.l1 + 1])), Strip(Text(payload[at.l2 + 1])),
                   Strip(Text(payload[at.name + 1])), now)

\* the decoded groups among the attempts, in order
Successes ==
    Pick([k \in 1..Len(attempts) |-> DecodeAt(attempts[k])],
         {k \in 1..Len(attempts) : DecodeAt(attempts[k]) # None})

\* the number of lines before the first line that holds more than whitespace
Lead == Cardinality({i \in 1..Len(payload) : \A j \in 1..i : IsBlank(Text(payload[j]))})

\* the number of lines after the last line that holds more than whitespace
Trail == Cardinality({i \in 1..Len(payload) : \A j \in i..Len(payload) : IsBlank(Text(payload[j]))})

\* the number of lines from the first to the last that holds more than whitespace
BodyLines == IF Lead = Len(payload) THEN 0 ELSE Len(payload) - Lead - Trail

\* C9 as stated: a payload of L lines gets floor(L/3) decode attempts, attempt
\* k on lines 3k, 3k+1, 3k+2, and the records are the decoded groups in order.
C9_GroupsOfThePayload ==
    pc # "parse" =>
        /\ Len(attempts) = Len(payload) \div 3
        /\ \A k \in 1..Len(attempts) :
              attempts[k] = [name |-> 3 * (k - 1), l1 |-> 3 * (k - 1) + 1, l2 |-> 3 * (k - 1) + 2]
        /\ records = Successes

\* C9: the groups are counted on the payload without its leading and trailing
\* blank lines: of the L lines from the first to the last non-blank one,
\* floor(L/3) groups are tried, group k on lines 3k, 3k+1, 3k+2 of these; the
\* L mod 3 last ones are left out, and the records are the groups that
\* decoded, in order, whether or not an earlier group failed.
C9_GroupsOfTheStrippedPayload ==
    pc # "parse" =>
        /\ Len(attempts) = BodyLines \div 3
        /\ \A k \in 1..Len(attempts) :
              attempts[k] = [name |-> Lead + 3 * (k - 1),
                             l1 |-> Lead + 3 * (k - 1) + 1,
                             l2 |-> Lead + 3 * (k - 1) + 2]
        /\ records = Successes

\* the loop ran on a payload with a leading blank line and a stray last line,
\* and a group decoded after a group that failed
C9_Witness ==
    /\ pc # "parse"
    /\ Lead = 1
    /\ BodyLines % 3 # 0
    /\ Len(attempts) = 2
    /\ DecodeAt(attempts[1]) = None
    /\ Len(records) = 1

-----------------------------------------------------------------------------
(* Properties of parse_tle_pair *)

\* C10 as stated: parse_tle_pair returns None whenever line1 or line2 is
\* shorter than 68 characters.
C10_ShortLinesFail ==
    (pc = "decoded" /\ (Len(d_in.line1) < 68 \/ Len(d_in.line2) < 68)) => d_out = None

\* the conversion of each numeric column of the harness input
ParsedField(n) ==
    CASE n = "id" -> ParseInt(Slice(d_in.line1, 2, 7))
      [] n = "yy" -> ParseInt(Slice(d_in.line1, 18, 20))
      [] n = "day" -> ParseFloat(Slice(d_in.line1, 20, 32))
      [] n = "incl" -> ParseFloat(Slice(d_in.line2, 8, 16))
      [] n = "raan" -> ParseFloat(Slice(d_in.line2, 17, 25))
      [] n = "ecc" -> ParseFloat(<<"0", ".">> \o Slice(d_in.line2, 26, 33))
      [] n = "argp" -> ParseFloat(Slice(d_in.line2, 34, 42))
      [] n = "ma" -> ParseFloat(Slice(d_in.line2, 43, 51))
      [] n = "mm" -> ParseFloat(Slice(d_in.line2, 52, 63))
      [] n = "rev" -> ParseInt(Slice(d_in.line2, 63, 68))

AllFieldsParse == \A n \in NumericFields : ParsedField(n).ok

\* C11: when a numeric column does not parse the decode returns None, and a
\* record that is returned carries the value of every numeric column.
C11_FieldFailureFailsRecord ==
    pc = "decoded" =>
        /\ ~AllFieldsParse => d_out = None
        /\ d_out # None =>
              /\ d_out.norad_id = ParsedField("id").val
              /\ d_out.epoch_utc = EpochDate(FullYear(ParsedField("yy").val), ParsedField("day"))
              /\ d_out.inclination = ParsedField("incl")
              /\ d_out.raan = ParsedField("raan")
              /\ d_out.eccentricity = ParsedField("ecc")
              /\ d_out.arg_perigee = ParsedField("argp")
              /\ d_out.mean_anomaly = ParsedField("ma")
              /\ d_out.mean_motion = ParsedField("mm")
              /\ d_out.rev_number = ParsedField("rev").val
              /\ d_out.rev_number \in Int

\* two full lines whose revolution number alone does not parse were decoded
C11_Witness ==
    /\ pc = "decoded"
    /\ Len(d_in.line1) = Len(FullLine1) /\ Len(d_in.line2) = Len(FullLine2)
    /\ ~ParsedField("rev").ok
    /\ \A n \in NumericFields \ {"rev"} : ParsedField(n).ok
    /\ d_out = None

\* the drag term of the harness input
DragTerm == parse_bstar(Strip(Slice(d_in.line1, 53, 61)))

\* line1 with the drag-term column b: the columns before it, filled with
\* blanks where line1 is short
WithDrag(line1, b) == [i \in 1..53 |-> IF i <= Len(line1) THEN line1[i] ELSE " "] \o b

\* C12: when the drag term does not parse and the numeric columns do, the
\* decode returns a record with b_star_drag None and every other field as
\* decoded from the same lines with a well-formed drag term.
C12_DragTermFailureIsNotFatal ==
    (pc = "decoded" /\ AllFieldsParse /\ DragTerm = None) =>
        /\ d_out # None
        /\ d_out.b_star_drag = None
        /\ d_out = [parse_tle_pair(WithDrag(d_in.line1, BSTAR_OK), d_in.line2, d_in.sat_name, now)
                       EXCEPT !.b_star_drag = None]

\* a line with a malformed, non-blank drag term was decoded into a record
C12_Witness ==
    /\ pc = "decoded"
    /\ AllFieldsParse
    /\ Slice(d_in.line1, 53, 61) = BSTAR_NEG
    /\ DragTerm = None
    /\ d_out # None

\* the year the Y2K rule gives the two-digit year y
PivotYear(y) == IF y < 57 THEN 2000 + y ELSE 1900 + y

\* the day the decoded epoch counts its day of year from
BaseDay == d_out.epoch_utc.day - ParsedField("day").ip + 1

\* C14: for a two-digit year y in 0..99 the decoded epoch counts its days
\* from the first of January of 2000 + y when y < 57 and of 1900 + y
\* otherwise, a year in 1957..2056.
C14_Y2KRule ==
    (/\ pc = "decoded" /\ d_out # None
     /\ ParsedField("yy").val \in 0..99
     /\ ~ParsedField("day").neg)
    => /\ BaseDay = DaysBeforeYear(PivotYear(ParsedField("yy").val))
       /\ YearOfDay(BaseDay) = PivotYear(ParsedField("yy").val)
       /\ YearOfDay(BaseDay) \in 1957..2056

\* year 56 was decoded into 2056
C14_Witness ==
    /\ pc = "decoded" /\ d_out # None
    /\ ParsedField("yy").val = 56
    /\ YearOfDay(d_out.epoch_utc.day) = 2056

-----------------------------------------------------------------------------
(* Further properties of the ingestion cycle *)

\* old is the beginning of table
StartsWith(table, old) == Len(old) <= Len(table) /\ SubSeq(table, 1, Len(old)) = old

\* C13: the rows the dimension and telemetry tables held at the start of a
\* cycle are still there, in place and unchanged, at every point of it; a
\* satellite keeps the name and designator it was first stored with.
C13_AppendOnly == StartsWith(dim, dim0) /\ StartsWith(tele, tele0)

\* a cycle ran to its end on a batch that names a stored satellite otherwise
C13_Witness ==
    /\ pc = "idle" /\ outcome = "ok"
    /\ \E i \in 1..Len(dim0) : \E k \in 1..Len(records) :
          /\ records[k].norad_id = dim0[i].norad_id
          /\ records[k].sat_name # dim0[i].sat_name
          /\ dim[i] = dim0[i]
    /\ Len(tele) > Len(tele0)

\* every row of the telemetry table was saved by a cycle of this run
FromEmptyTable == \A j \in 1..Len(tele) : tele[j].fetched_at_utc >= Now0

\* the records of the payload of the cycle before
PrevRecords == BatchRecords(BatchCalls(TextLines(PayloadText(prev.payload))), now)

\* every stored epoch and every epoch of the last two batches lies inside
\* the window at the present clock, hence at the clock of every cycle so far
AllInWindow ==
    /\ \A j \in 1..Len(tele) : InWindow(tele[j].epoch_utc, now)
    /\ \A i \in 1..Len(records) : InWindow(records[i].epoch_utc, now)
    /\ \A i \in 1..Len(PrevRecords) : InWindow(PrevRecords[i].epoch_utc, now)

\* C15 as stated: from an empty telemetry table, with every epoch inside the
\* window at each cycle, no two telemetry rows carry the same catalog id and epoch.
C15_OneRowPerIdAndEpoch ==
    (pc = "idle" /\ FromEmptyTable /\ AllInWindow) =>
        \A i, j \in 1..Len(tele) :
            i # j => tele[i].norad_id # tele[j].norad_id \/ tele[i].epoch_utc # tele[j].epoch_utc

DimFaults == {"dim_query", "dim_append"}

\* C16: telemetry is saved only by a cycle whose stage A ran to its end
\* before, and every telemetry row's catalog id has a dimension row.
C16_DimensionBeforeTelemetry ==
    /\ IdsOf(tele) \subseteq IdsOf(dim)
    /\ pc \in {"fetch", "parse", "stageA", "stageB"} => tele = tele0
    /\ faults \cap DimFaults # {} => tele = tele0
    /\ tele # tele0 =>
          /\ outcome = "ok"
          /\ "dim_satellites" \in queries
          /\ IdsOf(records) \subseteq IdsOf(dim)

\* after a cycle that crashed in stage A, a cycle saved new satellites and their telemetry
C16_Witness ==
    /\ pc = "idle" /\ outcome = "ok"
    /\ prev.outcome = "crashed"
    /\ dim # dim0
    /\ tele # tele0

\* C17: a failure of the weather stage leaves its table alone and the cycle
\* goes on to the TLE fetch; the weather table never holds two rows of one date.
C17_WeatherStage ==
    /\ "weather" \in faults =>
          /\ weather = weather0
          /\ pc = "idle" =>
                outcome \in {"network_error", "no_records"} \/ "dim_satellites" \in queries
    /\ \A i, j \in 1..Len(weather) : i # j => weather[i].date_utc # weather[j].date_utc

\* a cycle whose weather stage failed saved telemetry, after a cycle that
\* saved the two days of a body with three rows
C17_Witness ==
    /\ "weather" \in faults
    /\ pc = "idle" /\ outcome = "ok"
    /\ tele # tele0
    /\ Len(weather) = 2

====
